---- MODULE Spec2Model ----
(***************************************************************************)
(* SplitSmart (src/splitsmart.py): the share calculators (EqualSplit,      *)
(* UnequalSplit, PercentSplit, SharesSplit) and the debt ledger            *)
(* (DebtManager: _add_debt, update_debts_for_expense, settle_up,           *)
(* simplify_debts, summary_lines).                                         *)
(*                                                                         *)
(* Numbers.  The program computes with binary floats and calls             *)
(* round(x, 2) after every step.  A value that went through round(x, 2)    *)
(* is a whole number of cents and is modelled as an integer number of      *)
(* cents (shares, ledger amounts, net balances, settle-up payments).  An   *)
(* expense amount comes from float(input()) and is not rounded by the      *)
(* program: it is modelled as an integer number of mills (1/1000), so      *)
(* 1000.00 is 1000000 and 0.125 is 125.  The threshold 0.009 is 9 mills.   *)
(*                                                                         *)
(* round(x, 2) rounds the exact binary value of x to the nearest cent.     *)
(* When the real value of x lies strictly between two half-cent points the *)
(* result is the nearest cent.  When the real value is exactly a half cent *)
(* the result depends on the binary value: if that value is exact          *)
(* (a multiple of 1/8: .125, .375, ...) Python rounds half to even; if it  *)
(* is not, the float lies slightly above or below the half cent and the    *)
(* result goes that way (round(0.005, 2) = 0.01, round(0.015, 2) = 0.01).  *)
(* The model keeps both outcomes of such a tie as a nondeterministic       *)
(* choice: every operator that rounds returns the SET of possible results. *)
(***************************************************************************)
EXTENDS Integers, Sequences, FiniteSets, TLC

VARIABLES
    debts,      \* DebtManager.debts: insertion-ordered dict, <<key, cents>> pairs, key = <<debtor, creditor>>
    pre,        \* debts when the last operation was called
    raw,        \* debts as handed to simplify_debts by the last operation
    call,       \* the last call: operation and arguments
    result,     \* outcome of the last call: status, and the shares computed
    nops,       \* number of ledger operations performed
    expenses,   \* Group.expenses: the expenses appended by Group.add_expense, in order
    replayed    \* the ledger Storage.load rebuilt from the expenses, before it is replaced

vars == <<debts, pre, raw, call, result, nops, expenses, replayed>>

----------------------------------------------------------------------------
(* Bounds of the model *)

MaxOps == 2             \* ledger operations per behaviour
MaxParticipants == 4    \* length of an expense's participant list
MaxEntries == 3         \* entries of a raw (not yet collapsed) ledger
MaxHalfCents == 6       \* small expense amounts: 0.005, 0.010, ..., in half cents

Users == {"a", "b", "c", "d"}       \* emails of the registered users
Members == {"a", "b", "c"}          \* the group's members

----------------------------------------------------------------------------
(* Python dict: a sequence of <<key, value>> pairs, keys distinct, in      *)
(* insertion order.                                                        *)

Keys(d) == {d[i][1] : i \in DOMAIN d}

HasKey(d, k) == k \in Keys(d)

IndexOf(d, k) == CHOOSE i \in DOMAIN d : d[i][1] = k

\* d.get(k, default)
Get(d, k, default) == IF HasKey(d, k) THEN d[IndexOf(d, k)][2] ELSE default

\* d[k] = v: an existing key keeps its position, a new key goes last
Put(d, k, v) ==
    IF HasKey(d, k) THEN [d EXCEPT ![IndexOf(d, k)] = <<k, v>>]
    ELSE Append(d, <<k, v>>)

\* d.pop(k, None)
Pop(d, k) == SelectSeq(d, LAMBDA e : e[1] # k)

RECURSIVE SumValues(_)
\* sum(d.values())
SumValues(d) == IF d = <<>> THEN 0 ELSE d[1][2] + SumValues(Tail(d))

\* dict equality (==) ignores insertion order
AsSet(d) == {d[i] : i \in DOMAIN d}

----------------------------------------------------------------------------
(* round(x, 2) *)

Epsilon == 9        \* 0.009, in mills

\* float('inf') and float('nan'), which float(input()) and json.load accept
\* ("inf", "Infinity"): two values above every amount of the model, so that
\* inf orders above the finite values as it does in Python.  -Infinity is
\* float('-inf').
Infinity == 100000000
NaN == 100000001

\* x + y on floats that may be inf or nan
XAdd(x, y) ==
    IF x = NaN \/ y = NaN THEN NaN
    ELSE IF x = Infinity THEN (IF y = -Infinity THEN NaN ELSE Infinity)
    ELSE IF x = -Infinity THEN (IF y = Infinity THEN NaN ELSE -Infinity)
    ELSE IF y = Infinity \/ y = -Infinity THEN y
    ELSE x + y

\* -x
XNeg(x) == IF x = NaN THEN NaN ELSE -x

\* x - y
XSub(x, y) == XAdd(x, XNeg(y))

\* x < y: False when either side is nan
XLt(x, y) == x # NaN /\ y # NaN /\ x < y

Mills(cents) == 10 * cents

\* x <= 0.009 for a value x in cents (False for nan, which is above)
AtMostEpsilon(cents) == Mills(cents) <= Epsilon

\* x > 0.009 for a value x in cents (False for nan)
AboveEpsilon(cents) == cents # NaN /\ Mills(cents) > Epsilon

\* round(x, 2) in cents, where the real value of x is num / den cents
\* (den > 0) and x is the inexact result of float arithmetic: a tie goes
\* either way.
Round2(num, den) ==
    LET q == num \div den
        r == num % den
    IN  IF 2 * r < den THEN {q}
        ELSE IF 2 * r > den THEN {q + 1}
        ELSE {q, q + 1}

\* round(x, 2) in cents, where x is the input amount itself or the quotient
\* amount / n of mills / n: a tie at a multiple of 1/8 is an exact float and
\* Python rounds it half to even; any other tie goes either way.
Round2Exact(num, den) ==
    LET q == num \div den
        r == num % den
    IN  IF 2 * r = den /\ (10 * q + 5) % 250 = 125
        THEN {IF q % 2 = 0 THEN q ELSE q + 1}
        ELSE Round2(num, den)

----------------------------------------------------------------------------
(* Expense and the share calculators *)

NoDetails == [kind |-> "none", map |-> <<>>]

Ok(shares) == [status |-> "ok", shares |-> shares]
Error == [status |-> "error", shares |-> <<>>]
NoResult == [status |-> "none", shares |-> <<>>]
Hang == [status |-> "hang", shares |-> <<>>]

RECURSIVE FromKeys(_, _)
\* {p: base for p in participants}
FromKeys(participants, base) ==
    IF participants = <<>> THEN <<>>
    ELSE LET n == Len(participants)
         IN  Put(FromKeys(SubSeq(participants, 1, n - 1), base), participants[n], base)

\* mutant: the remainder goes to the last participant
AddRemainderToLast(shares, first, remainder) ==
    IF remainder # 0
    THEN Put(shares, shares[Len(shares)][1], shares[Len(shares)][2] + remainder)
    ELSE shares

\* shares[first] = round(shares[first] + remainder, 2) when remainder != 0
AddRemainder(shares, first, remainder) ==
    IF remainder # 0 THEN Put(shares, first, Get(shares, first, 0) + remainder)
    ELSE shares

\* EqualSplit.calculate_shares: the set of possible outcomes
EqualSplit(amount, participants) ==
    LET n == Len(participants)
    IN  IF n = 0 THEN {Error}
        ELSE { Ok(AddRemainder(FromKeys(participants, base), participants[1], remainder)) :
                 <<base, remainder>> \in
                   UNION { {<<b, r>> : r \in Round2(amount - Mills(SumValues(FromKeys(participants, b))), 10)} :
                           b \in Round2Exact(amount, 10 * n) } }

\* set(d.keys()) != set(email_to_user.keys())
KeysMismatch(map, participants) ==
    Keys(map) # {participants[i] : i \in DOMAIN participants}

\* UnequalSplit.calculate_shares; the explicit amounts are in cents
UnequalSplit(amount, participants, details) ==
    IF details.kind # "amounts" THEN {Error}
    ELSE IF KeysMismatch(details.map, participants) THEN {Error}
    ELSE { IF rounded # SumValues(details.map) THEN Error ELSE Ok(details.map) :
             rounded \in Round2Exact(amount, 10) }

RECURSIVE RoundedParts(_, _, _)
\* the loop "for email, v in map.items(): shares[email] = round(amount * (v / total), 2)":
\* the real value of a part is amount * v / total mills
RoundedParts(map, amount, total) ==
    IF map = <<>> THEN {<<>>}
    ELSE { <<<<map[1][1], part>>>> \o rest :
             part \in Round2(amount * map[1][2], 10 * total),
             rest \in RoundedParts(Tail(map), amount, total) }

\* remainder = round(amount - round(running, 2), 2), added to the first key
Reconciled(parts, amount) ==
    { Ok(AddRemainder(parts, parts[1][1], remainder)) :
        remainder \in Round2(amount - Mills(SumValues(parts)), 10) }

\* PercentSplit.calculate_shares; percentages are whole numbers
PercentSplit(amount, participants, details) ==
    IF details.kind # "percents" THEN {Error}
    ELSE IF KeysMismatch(details.map, participants) THEN {Error}
    ELSE IF SumValues(details.map) # 100 THEN {Error}
    ELSE UNION { Reconciled(parts, amount) : parts \in RoundedParts(details.map, amount, 100) }

\* SharesSplit.calculate_shares
SharesSplit(amount, participants, details) ==
    IF details.kind # "shares" THEN {Error}
    ELSE IF KeysMismatch(details.map, participants) THEN {Error}
    ELSE IF SumValues(details.map) <= 0 THEN {Error}
    ELSE UNION { Reconciled(parts, amount) :
                   parts \in RoundedParts(details.map, amount, SumValues(details.map)) }

\* Expense.calculate_splits with strategy_from_name
CalculateSplits(expense) ==
    IF expense.strategy \in {"equal"}
        THEN EqualSplit(expense.amount, expense.participants)
    ELSE IF expense.strategy \in {"unequal", "amounts"}
        THEN UnequalSplit(expense.amount, expense.participants, expense.details)
    ELSE IF expense.strategy \in {"percent", "percentage", "percents"}
        THEN PercentSplit(expense.amount, expense.participants, expense.details)
    ELSE IF expense.strategy \in {"shares", "ratio"}
        THEN SharesSplit(expense.amount, expense.participants, expense.details)
    ELSE {Error}

----------------------------------------------------------------------------
(* DebtManager *)

\* DebtManager._add_debt; amount in cents
AddDebt(d, debtor, creditor, amount) ==
    IF debtor = creditor THEN d
    ELSE LET key == <<debtor, creditor>>
             v == Get(d, key, 0) + amount
         IN  IF AtMostEpsilon(v) THEN Pop(Put(d, key, v), key) ELSE Put(d, key, v)

RECURSIVE NetBalancesPerEntry(_, _)
\* mutant: the balances are not accumulated per user, each entry adds two items
NetBalancesPerEntry(d, net) ==
    IF d = <<>> THEN net
    ELSE NetBalancesPerEntry(Tail(d),
            net \o << <<d[1][1][1], -d[1][2]>>, <<d[1][1][2], d[1][2]>> >>)

RECURSIVE NetBalances(_, _)
\* the loop of simplify_debts that fills net: an insertion-ordered dict of
\* <<email, balance>>, the debtor of an entry entered before its creditor
NetBalances(d, net) ==
    IF d = <<>> THEN net
    ELSE LET debtor == d[1][1][1]
             creditor == d[1][1][2]
             amt == d[1][2]
             net1 == Put(net, debtor, XSub(Get(net, debtor, 0), amt))
             net2 == Put(net1, creditor, XAdd(Get(net1, creditor, 0), amt))
         IN  NetBalances(Tail(d), net2)

\* mutant: the debtors are collected in reverse order
DebtorsReversed(net) ==
    LET neg == SelectSeq(net, LAMBDA e : Mills(e[2]) < -Epsilon)
    IN  [i \in DOMAIN neg |-> <<neg[Len(neg) + 1 - i][1], -neg[Len(neg) + 1 - i][2]>>]

\* [(u, -bal) for u, bal in net.items() if bal < -0.009]
Debtors(net) ==
    LET neg == SelectSeq(net, LAMBDA e : Mills(e[2]) < -Epsilon)
    IN  [i \in DOMAIN neg |-> <<neg[i][1], -neg[i][2]>>]

\* [(u, bal) for u, bal in net.items() if bal > 0.009]
Creditors(net) == SelectSeq(net, LAMBDA e : AboveEpsilon(e[2]))

\* one insertion of the stable sort: after every element that is not larger
InsertByAmount(sorted, e) ==
    LET k == Cardinality({i \in DOMAIN sorted : sorted[i][2] <= e[2]})
    IN  SubSeq(sorted, 1, k) \o <<e>> \o SubSeq(sorted, k + 1, Len(sorted))

RECURSIVE SortByAmount(_)
\* list.sort(key=lambda x: x[1], reverse=False): ascending and stable
SortByAmount(list) ==
    IF list = <<>> THEN <<>>
    ELSE LET n == Len(list)
         IN  InsertByAmount(SortByAmount(SubSeq(list, 1, n - 1)), list[n])

\* mutant: the larger of the two remainders is transferred
Max(x, y) == IF x >= y THEN x ELSE y

\* min(x, y): y when y < x, else x (so min(nan, y) is nan)
Min(x, y) == IF XLt(y, x) THEN y ELSE x

RECURSIVE MatchAdvanceBoth(_, _, _, _, _)
\* mutant: both pointers advance after every transfer
MatchAdvanceBoth(debtors, creditors, i, j, simplified) ==
    IF ~(i <= Len(debtors) /\ j <= Len(creditors)) THEN simplified
    ELSE LET key == <<debtors[i][1], creditors[j][1]>>
             pay == Min(debtors[i][2], creditors[j][2])
         IN  MatchAdvanceBoth(debtors, creditors, i + 1, j + 1,
                              Put(simplified, key, Get(simplified, key, 0) + pay))

RECURSIVE MatchLoop(_, _, _, _, _, _, _)
\* the two-pointer while loop of simplify_debts, with the number of
\* iterations performed and whether every iteration transferred a positive
\* amount and advanced a pointer.  An iteration that leaves debtors,
\* creditors, i, j and simplified as they were is repeated for ever: hangs.
MatchLoop(debtors, creditors, i, j, simplified, iterations, progress) ==
    IF ~(i <= Len(debtors) /\ j <= Len(creditors))
    THEN [simplified |-> simplified, iterations |-> iterations,
          progress |-> progress, hangs |-> FALSE]
    ELSE LET d_email == debtors[i][1]
             c_email == creditors[j][1]
             pay == Min(debtors[i][2], creditors[j][2])
             key == <<d_email, c_email>>
             simplified1 == IF XLt(0, pay)
                            THEN Put(simplified, key, XAdd(Get(simplified, key, 0), pay))
                            ELSE simplified
             d_amt == XSub(debtors[i][2], pay)
             c_amt == XSub(creditors[j][2], pay)
             debtors1 == IF AtMostEpsilon(d_amt) THEN debtors
                         ELSE [debtors EXCEPT ![i] = <<d_email, d_amt>>]
             creditors1 == IF AtMostEpsilon(c_amt) THEN creditors
                           ELSE [creditors EXCEPT ![j] = <<c_email, c_amt>>]
             i1 == IF AtMostEpsilon(d_amt) THEN i + 1 ELSE i
             j1 == IF AtMostEpsilon(c_amt) THEN j + 1 ELSE j
             progress1 == progress /\ XLt(0, pay) /\ (i1 > i \/ j1 > j)
         IN  IF <<debtors1, creditors1, i1, j1, simplified1>> = <<debtors, creditors, i, j, simplified>>
             THEN [simplified |-> simplified, iterations |-> iterations + 1,
                   progress |-> FALSE, hangs |-> TRUE]
             ELSE MatchLoop(debtors1, creditors1, i1, j1, simplified1, iterations + 1, progress1)

\* the ledger the while loop of simplify_debts builds
Match(debtors, creditors, i, j, simplified) ==
    MatchLoop(debtors, creditors, i, j, simplified, 0, TRUE).simplified

\* mutant: the collapse is skipped
SimplifyDebtsSkipped(d) == d

\* DebtManager.simplify_debts: the new value of self.debts
SimplifyDebts(d) ==
    LET net == NetBalances(d, <<>>)
        simplified == Match(SortByAmount(Debtors(net)), SortByAmount(Creditors(net)), 1, 1, <<>>)
    IN  SelectSeq(simplified, LAMBDA e : AboveEpsilon(e[2]))

\* the while loop of simplify_debts run on ledger d
SimplifyRun(d) ==
    LET net == NetBalances(d, <<>>)
    IN  MatchLoop(SortByAmount(Debtors(net)), SortByAmount(Creditors(net)), 1, 1, <<>>, 0, TRUE)

\* simplify_debts does not return on ledger d
SimplifyHangs(d) == SimplifyRun(d).hangs

RECURSIVE AddSharesReversed(_, _, _)
\* mutant: the debts are recorded from the payer to the participant
AddSharesReversed(d, splits, payer) ==
    IF splits = <<>> THEN d
    ELSE AddSharesReversed(IF splits[1][1] = payer THEN d
                           ELSE AddDebt(d, payer, splits[1][1], splits[1][2]),
                           Tail(splits), payer)

RECURSIVE AddShares(_, _, _)
\* the loop of update_debts_for_expense over splits.items()
AddShares(d, splits, payer) ==
    IF splits = <<>> THEN d
    ELSE AddShares(IF splits[1][1] = payer THEN d
                   ELSE AddDebt(d, splits[1][1], payer, splits[1][2]),
                   Tail(splits), payer)

\* mutant: a payment against the reverse entry is subtracted from it
SettleRawReverseSubtracts(d, payer, receiver, amount) ==
    LET key == <<payer, receiver>>
        opp_key == <<receiver, payer>>
    IN  IF ~HasKey(d, key)
        THEN IF HasKey(d, opp_key) THEN Put(d, opp_key, Get(d, opp_key, 0) - amount)
             ELSE Put(d, opp_key, amount)
        ELSE LET v == Get(d, key, 0) - amount
             IN  IF AtMostEpsilon(v) THEN Pop(Put(d, key, v), key) ELSE Put(d, key, v)

\* mutant: an entry settled down to zero is kept
SettleRawKeepsZero(d, payer, receiver, amount) ==
    LET key == <<payer, receiver>>
        opp_key == <<receiver, payer>>
    IN  IF ~HasKey(d, key)
        THEN IF HasKey(d, opp_key) THEN Put(d, opp_key, Get(d, opp_key, 0) + amount)
             ELSE Put(d, opp_key, amount)
        ELSE Put(d, key, Get(d, key, 0) - amount)

\* DebtManager.settle_up before its final simplify_debts; amount in cents
SettleRaw(d, payer, receiver, amount) ==
    LET key == <<payer, receiver>>
        opp_key == <<receiver, payer>>
    IN  IF ~HasKey(d, key)
        THEN IF HasKey(d, opp_key) THEN Put(d, opp_key, Get(d, opp_key, 0) + amount)
             ELSE Put(d, opp_key, amount)
        ELSE LET v == Get(d, key, 0) - amount
             IN  IF AtMostEpsilon(v) THEN Pop(Put(d, key, v), key) ELSE Put(d, key, v)

\* position of an email in the order of str comparison
Rank(u) == CHOOSE i \in 1..5 : <<"a", "b", "c", "d", "e">>[i] = u

KeyBefore(k1, k2) ==
    \/ Rank(k1[1]) < Rank(k2[1])
    \/ k1[1] = k2[1] /\ Rank(k1[2]) < Rank(k2[2])

\* DebtManager.summary_lines: one line <<debtor, creditor, cents>> per entry,
\* sorted by key; the single line "No outstanding debts." for an empty ledger
SummaryLines(d) ==
    IF d = <<>> THEN << <<"No outstanding debts.">> >>
    ELSE [n \in 1..Len(d) |->
            LET i == CHOOSE i \in DOMAIN d :
                        Cardinality({j \in DOMAIN d : KeyBefore(d[j][1], d[i][1])}) = n - 1
            IN  <<d[i][1][1], d[i][1][2], d[i][2]>>]

----------------------------------------------------------------------------
(* Storage: the snapshot of one group                                      *)

\* Storage.save: the "debts" list of the file, one triple per entry, in the
\* order of the dict
ToTriples(d) == [i \in DOMAIN d |-> <<d[i][1][1], d[i][1][2], d[i][2]>>]

RECURSIVE FromTriplesSwapped(_)
\* mutant: debtor and creditor are exchanged when the triples are read
FromTriplesSwapped(triples) ==
    IF triples = <<>> THEN <<>>
    ELSE LET n == Len(triples)
         IN  Put(FromTriplesSwapped(SubSeq(triples, 1, n - 1)),
                 <<triples[n][2], triples[n][1]>>, triples[n][3])

RECURSIVE FromTriples(_)
\* Storage.load: {(d["debtor"], d["creditor"]): float(d["amount"]) for d in ...}
FromTriples(triples) ==
    IF triples = <<>> THEN <<>>
    ELSE LET n == Len(triples)
         IN  Put(FromTriples(SubSeq(triples, 1, n - 1)),
                 <<triples[n][1], triples[n][2]>>, triples[n][3])

\* An entry of Group.expenses.  calculate_splits is a function of the
\* expense: the entry carries the value it has for this expense (the way its
\* rounding ties go), which is the value it has again when the expense is
\* replayed.
Recorded(expense, splits) == [expense |-> expense, splits |-> splits]

RECURSIVE Replay(_, _)
\* the loop of Storage.load over the expenses of the file: group.add_expense
\* of each on a new group; a ValueError leaves the loop
Replay(history, d) ==
    IF history = <<>> THEN [status |-> "ok", debts |-> d]
    ELSE LET e == history[1].expense
             splits == history[1].splits
         IN  IF splits.status = "error" THEN [status |-> "error", debts |-> d]
             ELSE Replay(Tail(history), SimplifyDebts(AddShares(d, splits.shares, e.payer)))

----------------------------------------------------------------------------
(* Inputs *)

\* the lists over S of length at most n
ListsUpTo(S, n) == UNION {[1..k -> S] : k \in 0..n}

\* the dicts of at most n entries, keys in K and values in V, in every insertion order
DictsUpTo(K, V, n) ==
    UNION { {d \in [1..k -> K \X V] : \A i, j \in 1..k : d[i][1] = d[j][1] => i = j} :
            k \in 0..n }

\* a list without repeated elements
Distinct(l) == \A i, j \in DOMAIN l : l[i] = l[j] => i = j

\* a list in the order of Rank, without repeated elements
Ascending(l) == \A i, j \in DOMAIN l : i < j => Rank(l[i]) < Rank(l[j])

Expense(amount, payer, participants, strategy, details) ==
    [amount |-> amount, payer |-> payer, participants |-> participants,
     strategy |-> strategy, details |-> details]

NoExpense == Expense(0, "a", <<>>, "none", NoDetails)

Call(op, expense, payer, receiver, amount) ==
    [op |-> op, expense |-> expense, payer |-> payer, receiver |-> receiver, amount |-> amount]

\* expense amounts, in mills: 0.005, 0.010, ... and 0.125, 0.375, 100.00, 1000.00
SmallAmounts == {5 * k : k \in 1..MaxHalfCents}
ShareAmounts == SmallAmounts \cup {125, 375, 100000, 1000000}
ParamAmounts == {10, 125, 100000}

ParticipantLists == ListsUpTo(Users, MaxParticipants)
MemberLists == {l \in ListsUpTo(Members, Cardinality(Members)) : Ascending(l)}
MemberDicts(V) == DictsUpTo(Members, V, Cardinality(Members))

\* the participants that match a dict of parameters, and a list that need not
ListsFor(m) == {l \in MemberLists : {l[i] : i \in DOMAIN l} = Keys(m)} \cup {<<"a", "b">>}

ParamInputs(strategy, kind, V) ==
    {Expense(x[1], "a", x[3], strategy, [kind |-> kind, map |-> x[2]]) :
        x \in UNION { {<<amount, m, ps>> : ps \in ListsFor(m)} :
                      <<amount, m>> \in ParamAmounts \X MemberDicts(V) }}

\* the inputs of the share calculators
ShareInputs ==
    {Expense(amount, "a", ps, "equal", NoDetails) :
        amount \in ShareAmounts, ps \in ParticipantLists}
    \cup ParamInputs("percent", "percents", {20, 30, 50, 100})
    \cup ParamInputs("ratio", "shares", {0, 1, 2})
    \cup ParamInputs("amounts", "amounts", {1, 2, 12})
    \cup {Expense(amount, "a", ps, strategy, NoDetails) :
        amount \in {10}, ps \in MemberLists, strategy \in {"percent", "ratio", "amounts", "bogus"}}

\* the raw ledgers: at most MaxEntries entries between different users
RawKeys == {k \in Users \X Users : k[1] # k[2]}
RawAmounts == {1, 5000}
RawLedgers == DictsUpTo(RawKeys, RawAmounts, MaxEntries)

\* the ledgers of a file whose amounts may be Infinity (json.load reads
\* "Infinity"; settle_up stores an amount of float("inf") as it is)
MatchingAmounts == RawAmounts \cup {Infinity}
MatchingLedgers == DictsUpTo(RawKeys, MatchingAmounts, MaxEntries - 1)

\* the expenses applied to the group's ledger
LedgerLists == {<<"a", "b">>, <<"a", "b", "c">>}
EdgeLists == {<<>>, <<"c">>, <<"b", "c">>, <<"c", "a">>, <<"a", "d">>, <<"b", "b", "c">>}
LedgerExpenses ==
    {Expense(amount, payer, ps, "equal", NoDetails) :
        amount \in {20, 1000000}, payer \in Members, ps \in LedgerLists}
    \cup {Expense(20, "a", ps, "equal", NoDetails) : ps \in EdgeLists}
    \cup {Expense(10, "d", <<"a", "b">>, "equal", NoDetails)}
    \cup {Expense(100000, payer, <<"a", "b">>, "percentage", [kind |-> "percents", map |-> m]) :
        payer \in Members, m \in {<< <<"a", 30>>, <<"b", 70>> >>, << <<"b", 70>>, <<"a", 30>> >>,
                                  << <<"a", 30>>, <<"b", 30>> >>, << <<"a", 100>> >>}}
    \cup {Expense(30, payer, <<"b", "c">>, "shares", [kind |-> "shares", map |-> m]) :
        payer \in Members, m \in {<< <<"b", 1>>, <<"c", 2>> >>, << <<"c", 2>>, <<"b", 1>> >>,
                                  << <<"b", 0>>, <<"c", 0>> >>}}
    \cup {Expense(10, "c", <<"a", "b", "c">>, "percent",
                  [kind |-> "percents", map |-> << <<"a", 0>>, <<"b", 50>>, <<"c", 50>> >>])}
    \cup {Expense(30, payer, <<"a", "c">>, "unequal", [kind |-> "amounts", map |-> m]) :
        payer \in Members, m \in {<< <<"a", 1>>, <<"c", 2>> >>, << <<"a", 1>>, <<"c", 1>> >>}}
    \cup {Expense(30, "a", <<"a", "c">>, "split", NoDetails)}

\* settle-up payments, in cents: 20.00, 30.00, and -20.00 (the amount is
\* float(input()), of either sign)
SettleAmounts == {2000, 3000, -2000}

\* a group of five loaded from a file whose debt triples go from a or d to
\* b, c or e, with amounts 0.01 and 0.02: Storage.load leaves the triples
\* collapsed
LoadedMembers == {"a", "b", "c", "d", "e"}
LoadedKeys == {"a", "d"} \X {"b", "c", "e"}
LoadedAmounts == {1, 2}
LoadedLedgers ==
    {SimplifyDebts(FromTriples(ToTriples(d))) : d \in DictsUpTo(LoadedKeys, LoadedAmounts, MaxEntries + 1)}

----------------------------------------------------------------------------
(* The ledger of one group: Group.add_expense, Group.settle_up,            *)
(* DebtManager.simplify_debts, Storage.save and Storage.load               *)

Init ==
    /\ debts = <<>>
    /\ pre = <<>>
    /\ raw = <<>>
    /\ call = Call("init", NoExpense, "a", "a", 0)
    /\ result = NoResult
    /\ nops = 0
    /\ expenses = <<>>
    /\ replayed = <<>>

\* mutant: a cent per participant is written to the ledger before the
\* validation raises
RaiseAfterWrite(c) ==
    /\ call' = c
    /\ result' = Error
    /\ pre' = debts
    /\ raw' = AddShares(debts, FromKeys(c.expense.participants, 1), c.payer)
    /\ debts' = raw'
    /\ nops' = nops + 1
    /\ replayed' = <<>>

\* Group.add_expense when it raises: nothing is written to the ledger
Raise(c) ==
    /\ call' = c
    /\ result' = Error
    /\ pre' = debts
    /\ raw' = debts
    /\ debts' = debts
    /\ nops' = nops + 1
    /\ replayed' = <<>>

\* Group.add_expense: the membership check, self.expenses.append(expense),
\* then DebtManager.update_debts_for_expense
AddExpense ==
    /\ nops < MaxOps
    /\ \E e \in LedgerExpenses :
        LET c == Call("add_expense", e, e.payer, e.payer, e.amount)
        IN  IF \E i \in DOMAIN e.participants : e.participants[i] \notin Members
            THEN Raise(c) /\ expenses' = expenses
            ELSE IF e.payer \notin Members
            THEN Raise(c) /\ expenses' = expenses
            ELSE \E splits \in CalculateSplits(e) :
                    /\ \A i \in DOMAIN expenses :
                         expenses[i].expense = e => expenses[i].splits = splits
                    /\ expenses' = Append(expenses, Recorded(e, splits))
                    /\ IF splits.status = "error" THEN Raise(c)
                       ELSE /\ call' = c
                            /\ result' = splits
                            /\ pre' = debts
                            /\ raw' = AddShares(debts, splits.shares, e.payer)
                            /\ debts' = SimplifyDebts(raw')
                            /\ nops' = nops + 1
                            /\ replayed' = <<>>

\* DebtManager.settle_up(payer, receiver, amount)
Settle(payer, receiver, amount) ==
    /\ call' = Call("settle_up", NoExpense, payer, receiver, amount)
    /\ result' = NoResult
    /\ pre' = debts
    /\ raw' = SettleRaw(debts, payer, receiver, amount)
    /\ debts' = SimplifyDebts(raw')
    /\ nops' = nops + 1
    /\ replayed' = <<>>
    /\ UNCHANGED expenses

\* Group.settle_up / DebtManager.settle_up
SettleUp ==
    /\ nops < MaxOps
    /\ \E payer \in Members, receiver \in Members, amount \in SettleAmounts :
        Settle(payer, receiver, amount)

\* DebtManager.simplify_debts called on the ledger as it is; when its loop
\* never ends, self.debts is never replaced and the call does not return
Simplify ==
    /\ nops < MaxOps
    /\ result # Hang
    /\ call' = Call("simplify_debts", NoExpense, "a", "a", 0)
    /\ result' = IF SimplifyHangs(debts) THEN Hang ELSE NoResult
    /\ pre' = debts
    /\ raw' = debts
    /\ debts' = IF SimplifyHangs(debts) THEN debts ELSE SimplifyDebts(debts)
    /\ nops' = nops + 1
    /\ replayed' = <<>>
    /\ UNCHANGED expenses

\* Storage.save of the group followed by Storage.load of the file: the
\* expenses are replayed on a new group, then the ledger is replaced by the
\* triples of the file and collapsed.  When the replay raises, load raises
\* and the application keeps the group it had.  (A load right after a load
\* reads the same file.)
Load ==
    /\ call.op \in {"add_expense", "settle_up", "simplify_debts"}
    /\ result # Hang
    /\ LET replay == Replay(expenses, <<>>)
       IN  /\ call' = Call("load", NoExpense, "a", "a", 0)
           /\ pre' = debts
           /\ IF replay.status = "error"
              THEN /\ result' = Error
                   /\ replayed' = <<>>
                   /\ raw' = debts
                   /\ debts' = debts
              ELSE /\ result' = NoResult
                   /\ replayed' = replay.debts
                   /\ raw' = FromTriples(ToTriples(debts))
                   /\ debts' = SimplifyDebts(raw')
    /\ UNCHANGED <<nops, expenses>>

Next == AddExpense \/ SettleUp \/ Simplify \/ Load

Spec == Init /\ [][Next]_vars

----------------------------------------------------------------------------
(* Netting as a function of the ledger: simplify_debts started on every    *)
(* raw ledger (as Storage.load does with the debt triples of a file)       *)

InitNetting ==
    /\ debts \in RawLedgers
    /\ pre = <<>>
    /\ raw = <<>>
    /\ call = Call("input", NoExpense, "a", "a", 0)
    /\ result = NoResult
    /\ nops = 0
    /\ expenses = <<>>
    /\ replayed = <<>>

\* one call per ledger
NextNetting == call.op = "input" /\ Simplify

SpecNetting == InitNetting /\ [][NextNetting]_vars

----------------------------------------------------------------------------
(* The matching loop of simplify_debts on ledgers whose amounts need not   *)
(* be finite                                                               *)

InitMatching ==
    /\ debts \in MatchingLedgers
    /\ pre = <<>>
    /\ raw = <<>>
    /\ call = Call("input", NoExpense, "a", "a", 0)
    /\ result = NoResult
    /\ nops = 0
    /\ expenses = <<>>
    /\ replayed = <<>>

\* one call per ledger
NextMatching == call.op = "input" /\ Simplify

SpecMatching == InitMatching /\ [][NextMatching]_vars

----------------------------------------------------------------------------
(* The share calculators as functions of the expense                       *)

InitShares ==
    /\ debts = <<>>
    /\ pre = <<>>
    /\ raw = <<>>
    /\ call \in {Call("input", e, e.payer, e.payer, e.amount) : e \in ShareInputs}
    /\ result = NoResult
    /\ nops = 0
    /\ expenses = <<>>
    /\ replayed = <<>>

\* Expense.calculate_splits
Calculate ==
    /\ call.op = "input"
    /\ \E splits \in CalculateSplits(call.expense) :
        /\ call' = [call EXCEPT !.op = "calculate_splits"]
        /\ result' = splits
    /\ UNCHANGED <<debts, pre, raw, nops, expenses, replayed>>

NextShares == Calculate

SpecShares == InitShares /\ [][NextShares]_vars

----------------------------------------------------------------------------
(* Settle-up on the ledger of a loaded group of five                       *)

InitSettle ==
    /\ debts \in LoadedLedgers
    /\ pre = <<>>
    /\ raw = <<>>
    /\ call = Call("input", NoExpense, "a", "a", 0)
    /\ result = NoResult
    /\ nops = 0
    /\ expenses = <<>>
    /\ replayed = <<>>

\* Group.settle_up with the amount of some entry of the ledger
SettleUpLoaded ==
    /\ call.op = "input"
    /\ \E payer \in LoadedMembers, receiver \in LoadedMembers,
          amount \in {debts[i][2] : i \in DOMAIN debts} :
        Settle(payer, receiver, amount)

NextSettle == SettleUpLoaded

SpecSettle == InitSettle /\ [][NextSettle]_vars

----------------------------------------------------------------------------
(* Properties *)

RECURSIVE Net(_, _)
\* net balance of u in ledger d: owed to u minus owed by u
Net(d, u) ==
    IF d = <<>> THEN 0
    ELSE (IF d[1][1][2] = u THEN d[1][2] ELSE 0)
         - (IF d[1][1][1] = u THEN d[1][2] ELSE 0)
         + Net(Tail(d), u)

RECURSIVE PositiveNetSum(_, _)
\* the sum of the positive net balances of the users in S
PositiveNetSum(d, S) ==
    IF S = {} THEN 0
    ELSE LET u == CHOOSE x \in S : TRUE
         IN  (IF Net(d, u) > 0 THEN Net(d, u) ELSE 0) + PositiveNetSum(d, S \ {u})

\* u is the debtor or the creditor of some entry of d
Appears(d, u) == \E i \in DOMAIN d : u \in {d[i][1][1], d[i][1][2]}

\* simplify_debts was called on the ledger pre and has returned
Simplified == call.op = "simplify_debts" /\ result # Hang

Calculated(strategies) ==
    /\ call.op = "calculate_splits"
    /\ call.expense.strategy \in strategies
    /\ call.expense.amount > 0
    /\ call.expense.participants # <<>>
    /\ result.status = "ok"

\* C1: netting is idempotent: the ledger left by simplify_debts, netted once
\* more, is the same debt set, for every raw ledger (canonical or not, with
\* balances of equal magnitude or not).
C1_NettingIdempotent ==
    Simplified => AsSet(SimplifyDebts(debts)) = AsSet(debts)

C1_Witness ==
    /\ Simplified
    /\ AsSet(pre) # AsSet(debts)
    /\ Len(debts) >= 2
    /\ \E u, v \in Users : u # v /\ Net(pre, u) < 0 /\ Net(pre, u) = Net(pre, v)

\* C2: netting conserves the total net imbalance: the sum of the positive net
\* balances of the ledger before simplify_debts equals the sum of the entry
\* amounts of the ledger after it.
C2_NettingConservesImbalance ==
    Simplified => PositiveNetSum(pre, Users) = SumValues(debts)

C2_Witness ==
    /\ Simplified
    /\ Len(debts) >= 2
    /\ SumValues(pre) > SumValues(debts)

\* C3: after every add-expense and settle-up (each ending in a collapse) the
\* ledger holds at most one of the entries (A->B) and (B->A) for every pair of
\* participants.
C3_NoPairInBothDirections ==
    \A u, v \in Users :
        u # v => ~(HasKey(debts, <<u, v>>) /\ HasKey(debts, <<v, u>>))

C3_Witness ==
    /\ call.op = "add_expense"
    /\ result.status = "ok"
    /\ \E u, v \in Users : u # v /\ HasKey(raw, <<u, v>>) /\ HasKey(raw, <<v, u>>)

\* C4: after every completed ledger operation (add-expense, settle-up also
\* with payer = receiver, simplify_debts) every stored entry has a debtor
\* different from its creditor and an amount of at least one cent.
C4_EntriesPositiveNoSelfDebt ==
    \A i \in DOMAIN debts :
        /\ debts[i][1][1] # debts[i][1][2]
        /\ debts[i][2] >= 1

C4_Witness ==
    /\ call.op = "settle_up"
    /\ call.payer = call.receiver
    /\ HasKey(raw, <<call.payer, call.payer>>)
    /\ pre # <<>>

\* C5: for every Equal input with a positive amount and a non-empty
\* participant list, the sum of the shares equals the amount rounded to 2
\* decimals.  (A half-cent amount that is not an exact float may round either
\* way and both cents are accepted.)
C5_EqualSharesSumToAmount ==
    Calculated({"equal"}) =>
        SumValues(result.shares) \in Round2Exact(call.expense.amount, 10)

\* C6: for every valid Percentage input and every valid Ratio input, in every
\* order of the supplied entries, the shares sum to the amount (to the cent).
C6_ParamSharesSumToAmount ==
    Calculated({"percent", "ratio"}) =>
        SumValues(result.shares) \in Round2Exact(call.expense.amount, 10)

\* x is a nearest whole number to num / den
Nearest(x, num, den) == 2 * (x * den - num) <= den /\ 2 * (num - x * den) <= den

Expense1000 == Expense(1000000, "a", <<"a", "b", "c">>, "equal", NoDetails)

FirstExpense1000 ==
    /\ nops = 1
    /\ call.op = "add_expense"
    /\ call.expense = Expense1000
    /\ result.status = "ok"

C9_ZeroNetDisappears ==
    Simplified =>
        /\ \A u \in Users : Net(pre, u) = 0 => ~Appears(debts, u)
        /\ AsSet(pre) = { << <<"a", "b">>, 5000 >>, << <<"b", "c">>, 5000 >> } =>
             debts = << << <<"a", "c">>, 5000 >> >>

C9_Witness ==
    /\ Simplified
    /\ AsSet(pre) = { << <<"a", "b">>, 5000 >>, << <<"b", "c">>, 5000 >> }
    /\ Appears(pre, "b")

ReverseOnly ==
    /\ call.op = "settle_up"
    /\ ~HasKey(pre, <<call.payer, call.receiver>>)
    /\ HasKey(pre, <<call.receiver, call.payer>>)

\* C10: a settle-up from payer to receiver when only the reverse entry
\* (receiver->payer) exists adds the amount to that entry and changes no other
\* entry; with only b->a 30.00 in the ledger, a settle-up of 20.00 from a to b
\* leaves b->a 50.00 and no a->b.
C10_SettleAddsToReverse ==
    ReverseOnly =>
        LET key == <<call.payer, call.receiver>>
            opp_key == <<call.receiver, call.payer>>
        IN  /\ Keys(raw) = Keys(pre)
            /\ \A k \in Keys(pre) :
                 Get(raw, k, 0) = Get(pre, k, 0) + (IF k = opp_key THEN call.amount ELSE 0)
            /\ (pre = << << <<"b", "a">>, 3000 >> >> /\ key = <<"a", "b">> /\ call.amount = 2000) =>
                 debts = << << <<"b", "a">>, 5000 >> >>

C10_Witness ==
    /\ ReverseOnly
    /\ pre = << << <<"b", "a">>, 3000 >> >>
    /\ call.payer = "a"
    /\ call.amount = 2000

\* the summary has a line "debtor owes creditor" for the pair key
Listed(d, key) ==
    \E n \in DOMAIN SummaryLines(d) :
        /\ Len(SummaryLines(d)[n]) = 3
        /\ SummaryLines(d)[n][1] = key[1]
        /\ SummaryLines(d)[n][2] = key[2]

\* settle_up(payer, receiver, x) was called on a ledger with payer->receiver x
ExactSettle ==
    /\ call.op = "settle_up"
    /\ HasKey(pre, <<call.payer, call.receiver>>)
    /\ Get(pre, <<call.payer, call.receiver>>, 0) = call.amount

\* C11 as stated: after settle_up(payer, receiver, x) on a ledger holding
\* payer->receiver x the ledger has no payer->receiver entry and the summary
\* does not list the pair.
C11_Original ==
    ExactSettle =>
        /\ ~HasKey(debts, <<call.payer, call.receiver>>)
        /\ ~Listed(debts, <<call.payer, call.receiver>>)

\* C11, amended: settle_up(payer, receiver, x) on a ledger holding
\* payer->receiver x removes that entry before the collapse and no entry is
\* left as a 0.00 record; after the collapse the ledger and the summary have
\* the pair again only when the payer is still a net debtor and the receiver
\* still a net creditor, whom the netting pairs anew.
C11_ExactSettleRemovesEntry ==
    ExactSettle =>
        LET key == <<call.payer, call.receiver>>
        IN  /\ ~HasKey(raw, key)
            /\ \A i \in DOMAIN debts : debts[i][2] >= 1
            /\ Listed(debts, key) <=> HasKey(debts, key)
            /\ HasKey(debts, key) => Net(raw, call.payer) < 0 /\ Net(raw, call.receiver) > 0

C11_Witness ==
    /\ ExactSettle
    /\ Len(pre) >= 2
    /\ ~HasKey(debts, <<call.payer, call.receiver>>)
    /\ debts # <<>>

\* add_expense passed the membership check and calculate_splits raised
FailedSplit ==
    /\ call.op = "add_expense"
    /\ result.status = "error"
    /\ call.payer \in Members
    /\ \A i \in DOMAIN call.expense.participants : call.expense.participants[i] \in Members

\* C12: when computing the shares of an expense fails validation (unknown
\* policy selector, empty participant list, parameter keys that do not match
\* the participants, totals that fail), the ledger's debts after the failed
\* call are the debts before it: nothing was written.
C12_FailedSplitWritesNothing ==
    FailedSplit => debts = pre /\ raw = pre

C12_Witness ==
    /\ FailedSplit
    /\ pre # <<>>
    /\ call.expense.strategy = "percentage"
    /\ KeysMismatch(call.expense.details.map, call.expense.participants)

\* simplify_debts was run on a ledger with a negative stored amount between
\* two different users
NegativeNetted ==
    /\ call.op \in {"settle_up", "simplify_debts"}
    /\ \E i \in DOMAIN raw : raw[i][2] < 0 /\ raw[i][1][1] # raw[i][1][2]

\* C13: netting a ledger that holds a negative stored amount is reported as
\* an error; the negative entry is not accepted and rewritten as a debt in
\* the opposite direction.
C13_NegativeAmountIsAnError ==
    NegativeNetted =>
        /\ result.status = "error"
        /\ \A i \in DOMAIN raw :
             raw[i][2] < 0 => Get(debts, <<raw[i][1][2], raw[i][1][1]>>, 0) = Get(pre, <<raw[i][1][2], raw[i][1][1]>>, 0)

\* every operation so far was an add_expense of a valid expense
ValidHistory ==
    /\ Len(expenses) = nops
    /\ \A i \in DOMAIN expenses : expenses[i].splits.status = "ok"

\* C14: after a history of valid expenses on an empty ledger, Storage.load of
\* the snapshot Storage.save wrote succeeds, and its two rebuild paths agree:
\* the ledger rebuilt by replaying the expenses in order is the debt set that
\* the saved triples collapse to, which is the debt set that was saved.
C14_ReplayEqualsLoad ==
    (call.op = "load" /\ ValidHistory) =>
        /\ result.status # "error"
        /\ AsSet(replayed) = AsSet(debts)
        /\ AsSet(debts) = AsSet(pre)

C14_Witness ==
    /\ call.op = "load"
    /\ ValidHistory
    /\ Len(expenses) = 2
    /\ expenses[1].expense.payer # expenses[2].expense.payer
    /\ Len(debts) >= 2

\* the participants with a net balance below -epsilon, above epsilon
NetDebtors(d) == {u \in Users : Mills(Net(d, u)) < -Epsilon}
NetCreditors(d) == {u \in Users : Mills(Net(d, u)) > Epsilon}

\* C15: when the ledger has a net debtor and a net creditor, the ledger after
\* simplify_debts has at most #debtors + #creditors - 1 entries.
C15_AtMostDebtorsPlusCreditorsMinusOne ==
    (Simplified /\ NetDebtors(pre) # {} /\ NetCreditors(pre) # {}) =>
        Len(debts) <= Cardinality(NetDebtors(pre)) + Cardinality(NetCreditors(pre)) - 1

C15_Witness ==
    /\ Simplified
    /\ Cardinality(NetDebtors(pre)) = 2
    /\ Cardinality(NetCreditors(pre)) = 2
    /\ Len(debts) = 3

\* add_expense applied the shares of a valid expense to the ledger
AppliedExpense == call.op = "add_expense" /\ result.status = "ok"

RECURSIVE SumOthers(_, _)
\* the sum of the shares of the participants other than the payer
SumOthers(shares, payer) ==
    IF shares = <<>> THEN 0
    ELSE (IF shares[1][1] = payer THEN 0 ELSE shares[1][2]) + SumOthers(Tail(shares), payer)

\* C16: applying a valid expense changes the net balances by exactly the
\* shares: a participant other than the payer goes down by their share, the
\* payer goes up by the sum of the other participants' shares, every other
\* user is unchanged.
C16_ExpenseMovesNetByShares ==
    AppliedExpense =>
        \A u \in Users :
            Net(debts, u) - Net(pre, u) =
                IF u = call.payer THEN SumOthers(result.shares, call.payer)
                ELSE -Get(result.shares, u, 0)

\* C17: settle_up(payer, receiver, amount) with payer # receiver and a
\* positive amount raises the payer's net balance by amount, lowers the
\* receiver's by amount and leaves every other net balance unchanged, whether
\* the payer->receiver entry exists (also when the amount exceeds it), only
\* the reverse entry exists, or neither.
C17_SettleMovesNetByAmount ==
    (call.op = "settle_up" /\ call.payer # call.receiver /\ call.amount > 0) =>
        \A u \in Users :
            Net(debts, u) - Net(pre, u) =
                IF u = call.payer THEN call.amount
                ELSE IF u = call.receiver THEN -call.amount
                ELSE 0

\* C18: simplify_debts preserves every participant's net balance, for
\* ledgers of positive cent amounts: owed-to minus owes computed from the
\* ledger after the collapse equals the value computed before it, and the
\* matching ends with the debtors and the creditors both used up.
C18_NettingPreservesEachNet ==
    (Simplified /\ \A i \in DOMAIN pre : pre[i][2] > 0) =>
        /\ \A u \in Users : Net(debts, u) = Net(pre, u)
        /\ NetDebtors(debts) = NetDebtors(pre)
        /\ NetCreditors(debts) = NetCreditors(pre)
        /\ \A u \in NetDebtors(pre) : \E i \in DOMAIN debts : debts[i][1][1] = u
        /\ \A u \in NetCreditors(pre) : \E i \in DOMAIN debts : debts[i][1][2] = u

C18_Witness ==
    /\ Simplified
    /\ Len(pre) = 3
    /\ AsSet(pre) # AsSet(debts)
    /\ Cardinality(NetDebtors(pre)) = 2
    /\ \E u \in Users : Appears(pre, u) /\ Net(pre, u) = 0

\* C19: the shares computed for an expense with a positive amount are never
\* negative, the first participant's share after the remainder included, for
\* every policy, amount and participant count (stated here for amounts in
\* whole cents and positive weights, where no input is in doubt).
C19_SharesNeverNegative ==
    (/\ Calculated({"equal", "percent", "ratio", "amounts"})
     /\ call.expense.amount % 10 = 0
     /\ \A i \in DOMAIN call.expense.details.map : call.expense.details.map[i][2] > 0) =>
        \A i \in DOMAIN result.shares : result.shares[i][2] >= 0

\* C20: the matching loop of simplify_debts ends on every ledger: every
\* iteration transfers a positive amount and advances at least one of the two
\* pointers, so there are at most #debtors + #creditors - 1 iterations.
C20_MatchingLoopTerminates ==
    call.op = "simplify_debts" =>
        LET run == SimplifyRun(pre)
            nd == Len(Debtors(NetBalances(pre, <<>>)))
            nc == Len(Creditors(NetBalances(pre, <<>>)))
        IN  /\ ~run.hangs
            /\ result # Hang
            /\ run.progress
            /\ run.iterations <= (IF nd = 0 \/ nc = 0 THEN 0 ELSE nd + nc - 1)

\* every participant has the same net balance in the two ledgers
SameNets(d1, d2) == \A u \in Users : Net(d1, u) = Net(d2, u)

\* the ledgers holding the entries of d inserted in another order
Reorderings(d) ==
    {[i \in DOMAIN d |-> d[p[i]]] : p \in Permutations(DOMAIN d)}

\* C21: the collapsed ledger is determined by the net balances alone: a ledger
\* with the same net balance for every participant as the ledger given to
\* simplify_debts (here: the same entries inserted in another order) collapses
\* to the same debt set, balances of equal magnitude included.
C21_NetsDetermineCollapse ==
    Simplified =>
        \A other \in Reorderings(pre) :
            SameNets(other, pre) => AsSet(SimplifyDebts(other)) = AsSet(debts)

\* C22: a Group.add_expense that raises (participant or payer not a member,
\* or invalid split configuration) changes neither the ledger nor the expense
\* history: the history holds exactly the expenses whose shares were applied
\* to the ledger, and replaying it, as Storage.load does, raises nothing.
C22_FailedAddExpenseChangesNothing ==
    /\ (call.op = "add_expense" /\ result = Error) => debts = pre
    /\ \A i \in DOMAIN expenses : expenses[i].splits.status = "ok"
    /\ Replay(expenses, <<>>).status = "ok"

====
